---- MODULE Spec2Model ----
(***************************************************************************)
(* Model of the OpenTimestamps proof service (src/app.py): the text        *)
(* utilities and the status classifier, the four request handlers acting   *)
(* on the proof store directory, and the handlers as interleaved workers.  *)
(* Strings are sequences of one-character strings, so that lower(),        *)
(* strip(), the substring tests and the HEX64 pattern are computed         *)
(* character by character.                                                 *)
(***************************************************************************)
EXTENDS Integers, Sequences, FiniteSets, TLC

VARIABLES store, ots_installed, req, resp, twin, trace, written,
          sout, serr, erc, res,
          wk, scratch

vars == <<store, ots_installed, req, resp, twin, trace, written,
          sout, serr, erc, res, wk, scratch>>

---------------------------------------------------------------------------
(* Bounds *)

\* longest byte buffer (uploaded file, proof) the model draws
MaxBytesLen == 1
\* most entries the proof store directory holds
MaxEntries == 1
\* most fragments an engine output text is composed of
MaxParts == 2
\* number of concurrent request workers
MaxWorkers == 2

---------------------------------------------------------------------------
(* Strings *)

UpperCase == <<"A","B","C","D","E","F","G","H","I","J","K","L","M","N","O","P","Q","R","S","T","U","V","W","X","Y","Z">>
LowerCase == <<"a","b","c","d","e","f","g","h","i","j","k","l","m","n","o","p","q","r","s","t","u","v","w","x","y","z">>
HexDigits == {"0","1","2","3","4","5","6","7","8","9","a","b","c","d","e","f"}
Whitespace == {" ", "\n", "\t", "\r"}
NL == <<"\n">>

UpperSet == {UpperCase[i] : i \in 1..26}

\* str.lower() on one character
lower_char(c) ==
  IF c \in UpperSet THEN LowerCase[CHOOSE i \in 1..26 : UpperCase[i] = c] ELSE c

\* str.lower()
lower(s) == [i \in 1..Len(s) |-> lower_char(s[i])]

\* str.strip(): from the first to the last character that is not whitespace
strip(s) ==
  LET n == Len(s) IN
  IF \A i \in 1..n : s[i] \in Whitespace THEN <<>>
  ELSE SubSeq(s,
              CHOOSE i \in 1..n : s[i] \notin Whitespace
                                  /\ \A j \in 1..(i - 1) : s[j] \in Whitespace,
              CHOOSE i \in 1..n : s[i] \notin Whitespace
                                  /\ \A j \in (i + 1)..n : s[j] \in Whitespace)

\* Python's  m in t  on strings
In(m, t) == \E i \in 0..(Len(t) - Len(m)) : \A k \in 1..Len(m) : t[i + k] = m[k]

\* HEX64_RE.match(s): 64 characters of [0-9a-f]; $ also matches just before a
\* final newline
HEX64_RE_match_nodollar(s) ==
  /\ Len(s) >= 64
  /\ \A i \in 1..64 : s[i] \in HexDigits

HEX64_RE_match(s) ==
  /\ \/ Len(s) = 64
     \/ Len(s) = 65 /\ s[65] = "\n"
  /\ \A i \in 1..64 : s[i] \in HexDigits

---------------------------------------------------------------------------
(* Byte buffers and SHA-256 *)

\* the byte the model's buffers are made of
Byte == 1
Bytes == UNION {[1..n -> {Byte}] : n \in 0..MaxBytesLen}

\* hashlib.sha256(data).hexdigest() of the buffers Byte^n, n = 0..4
Sha256Table == <<
  <<"e","3","b","0","c","4","4","2","9","8","f","c","1","c","1","4","9","a","f","b","f","4","c","8","9","9","6","f","b","9","2","4","2","7","a","e","4","1","e","4","6","4","9","b","9","3","4","c","a","4","9","5","9","9","1","b","7","8","5","2","b","8","5","5">>,
  <<"4","b","f","5","1","2","2","f","3","4","4","5","5","4","c","5","3","b","d","e","2","e","b","b","8","c","d","2","b","7","e","3","d","1","6","0","0","a","d","6","3","1","c","3","8","5","a","5","d","7","c","c","e","2","3","c","7","7","8","5","4","5","9","a">>,
  <<"9","d","c","f","9","7","a","1","8","4","f","3","2","6","2","3","d","1","1","a","7","3","1","2","4","c","e","b","9","9","a","5","7","0","9","b","0","8","3","7","2","1","e","8","7","8","a","1","6","d","7","8","f","5","9","6","7","1","8","b","a","7","b","2">>,
  <<"7","5","c","8","f","d","0","4","a","d","9","1","6","a","e","c","3","e","3","d","5","c","b","7","6","a","4","5","2","b","1","1","6","b","3","d","4","d","0","9","1","2","a","0","a","4","8","5","e","9","f","b","8","e","3","d","2","4","0","e","2","1","0","c">>,
  <<"2","7","e","c","d","0","a","5","9","8","e","7","6","f","8","a","2","f","d","2","6","4","d","4","2","7","d","f","0","a","1","1","9","9","0","3","e","8","e","a","e","3","8","4","e","4","7","8","9","0","2","5","4","1","7","5","6","f","0","8","9","d","d","1">> >>

_sha256_bytes(data) == Sha256Table[Len(data) + 1]

---------------------------------------------------------------------------
(* Engine results and the status classifier *)

\* exit codes of the engine
RCs == {0, 1}

_status_from_text_failed_first(text) ==
  LET t == lower(text) IN
  IF In(<<"t","i","m","e","s","t","a","m","p"," ","c","o","m","p","l","e","t","e">>, t) \/ In(<<"a","t","t","e","s","t","a","t","i","o","n"," ","v","e","r","i","f","i","e","d">>, t)
     \/ (In(<<"s","u","c","c","e","s","s","!">>, t) /\ In(<<"c","o","m","p","l","e","t","e">>, t))
  THEN "verified"
  ELSE IF In(<<"n","o","t"," ","a"," ","t","i","m","e","s","t","a","m","p">>, t) \/ In(<<"e","r","r","o","r">>, t) \/ In(<<"f","a","i","l","e","d">>, t)
  THEN "failed"
  ELSE IF In(<<"p","e","n","d","i","n","g">>, t) \/ In(<<"p","e","n","d","i","n","g"," ","c","o","n","f","i","r","m","a","t","i","o","n">>, t)
          \/ In(<<"n","o","t"," ","e","n","o","u","g","h"," ","c","o","n","f","i","r","m","a","t","i","o","n","s">>, t)
  THEN "pending"
  ELSE "unknown"

_status_from_text(text) ==
  LET t == lower(text) IN
  IF In(<<"t","i","m","e","s","t","a","m","p"," ","c","o","m","p","l","e","t","e">>, t) \/ In(<<"a","t","t","e","s","t","a","t","i","o","n"," ","v","e","r","i","f","i","e","d">>, t)
     \/ (In(<<"s","u","c","c","e","s","s","!">>, t) /\ In(<<"c","o","m","p","l","e","t","e">>, t))
  THEN "verified"
  ELSE IF In(<<"p","e","n","d","i","n","g">>, t) \/ In(<<"p","e","n","d","i","n","g"," ","c","o","n","f","i","r","m","a","t","i","o","n">>, t)
          \/ In(<<"n","o","t"," ","e","n","o","u","g","h"," ","c","o","n","f","i","r","m","a","t","i","o","n","s">>, t)
  THEN "pending"
  ELSE IF In(<<"n","o","t"," ","a"," ","t","i","m","e","s","t","a","m","p">>, t) \/ In(<<"e","r","r","o","r">>, t) \/ In(<<"f","a","i","l","e","d">>, t)
  THEN "failed"
  ELSE "unknown"

\* An engine outcome o: found (the executable exists), returncode, stdout,
\* stderr, and what it did to its file: artifact (stamp) or extend (upgrade).
\* A raised HTTPException is the record [raised |-> TRUE, status_code, detail].
_run_no_raise(o) ==
  [raised |-> FALSE, returncode |-> IF o.found THEN o.returncode ELSE 127,
   stdout |-> IF o.found THEN strip(o.stdout) ELSE <<>>,
   stderr |-> IF o.found THEN strip(o.stderr) ELSE <<>>,
   ok |-> o.found /\ o.returncode = 0]

_run(o) ==
  IF ~o.found
  THEN [raised |-> TRUE, status_code |-> 500, detail |-> "Executable not found"]
  ELSE [raised |-> FALSE, returncode |-> o.returncode,
        stdout |-> strip(o.stdout), stderr |-> strip(o.stderr),
        ok |-> o.returncode = 0]

WithStatus(r, okflag, status) ==
  [raised |-> FALSE, returncode |-> r.returncode, stdout |-> r.stdout,
   stderr |-> r.stderr, ok |-> okflag, status |-> status]

_run_ots_verify_by_exit_code(o) ==
  LET r == _run(o) IN
  IF r.raised THEN r
  ELSE LET text == lower(r.stdout \o NL \o r.stderr) IN
       WithStatus(r, r.ok, IF r.ok THEN _status_from_text(text) ELSE "failed")

_run_ots_verify(o) ==
  LET r == _run(o) IN
  IF r.raised THEN r
  ELSE LET text == lower(r.stdout \o NL \o r.stderr) IN
       WithStatus(r,
                  IF In(<<"b","i","t","c","o","i","n"," ","b","l","o","c","k">>, text) \/ In(<<"a","t","t","e","s","t","a","t","i","o","n"," ","v","e","r","i","f","i","e","d">>, text)
                     \/ In(<<"p","e","n","d","i","n","g"," ","c","o","n","f","i","r","m","a","t","i","o","n">>, text)
                     \/ (In(<<"g","o","t">>, text) /\ In(<<"a","t","t","e","s","t","a","t","i","o","n">>, text))
                  THEN TRUE ELSE r.ok,
                  _status_from_text(text))

_run_ots_upgrade(o) ==
  LET r == _run(o) IN
  IF r.raised THEN r
  ELSE LET text == lower(r.stdout \o NL \o r.stderr) IN
       WithStatus(r, r.ok, _status_from_text(text))

_run_ots_stamp(o) == _run(o)

---------------------------------------------------------------------------
(* base64 *)

B64Alphabet == <<"A","B","C","D","E","F","G","H","I","J","K","L","M","N","O","P","Q","R","S","T","U","V","W","X","Y","Z","a","b","c","d","e","f","g","h","i","j","k","l","m","n","o","p","q","r","s","t","u","v","w","x","y","z","0","1","2","3","4","5","6","7","8","9","+","/">>

\* base64.b64encode(b).decode("ascii"): standard alphabet, with padding
b64encode(b) ==
  LET byte(i) == IF i <= Len(b) THEN b[i] ELSE 0
      group(g) == byte(3*g + 1) * 65536 + byte(3*g + 2) * 256 + byte(3*g + 3)
      sextet(g, k) == (group(g) \div (64 ^ (3 - k))) % 64
      have(g) == IF Len(b) - 3*g >= 3 THEN 3 ELSE Len(b) - 3*g
  IN [j \in 1..(4 * ((Len(b) + 2) \div 3)) |->
        LET g == (j - 1) \div 4
            k == (j - 1) % 4
        IN IF k > have(g) THEN "=" ELSE B64Alphabet[sextet(g, k) + 1]]

---------------------------------------------------------------------------
(* The proof store directory and the engine *)

\* an absent file, and Python's None where a string is expected
NoFile == <<-1>>
None == <<"None">>
EmptyDir == [n \in {} |-> <<>>]

\* Path.write_bytes on PROOFS_DIR / name
WriteBytes(dir, name, bytes) ==
  [n \in (DOMAIN dir) \cup {name} |-> IF n = name THEN bytes ELSE dir[n]]

\* upload file names: "" stands for a missing name
Filenames == {<<>>, <<"a",".","o","t","s">>}
TargetName == <<"a",".","p","d","f">>

\* what the engine prints, as (stdout, stderr)
EngineOutputs ==
  { [stdout |-> <<"S","u","c","c","e","s","s","!"," ","T","i","m","e","s","t","a","m","p"," ","c","o","m","p","l","e","t","e","\n">>, stderr |-> <<>>],
    [stdout |-> <<>>, stderr |-> <<"E","r","r","o","r",":"," ","P","e","n","d","i","n","g"," ","c","o","n","f","i","r","m","a","t","i","o","n","\n">>],
    [stdout |-> <<"S","u","c","c","e","s","s","!"," ","B","i","t","c","o","i","n"," ","b","l","o","c","k"," ","7","\n">>, stderr |-> <<>>] }

StampOutput == [stdout |-> <<>>, stderr |-> <<"S","u","b","m","i","t","t","i","n","g","\n">>]

\* what one run of the engine does; found is whether subprocess.run finds the
\* executable (FileNotFoundError otherwise)
Ran(rc, out, artifact, extend) ==
  [found |-> TRUE, returncode |-> rc, stdout |-> out.stdout, stderr |-> out.stderr,
   artifact |-> artifact, extend |-> extend]

\* ots stamp <file> writes <file>.ots, or fails to
StampOutcomes ==
  {Ran(rc, StampOutput, a, FALSE) :
                    rc \in RCs, a \in Bytes \cup {NoFile}}

VerifyOutcomes ==
  {Ran(rc, out, NoFile, FALSE) : rc \in RCs, out \in EngineOutputs}

\* ots upgrade <file> may rewrite the file in place, extending it
UpgradeOutcomes ==
  {Ran(rc, out, NoFile, e) :
                    rc \in RCs, out \in EngineOutputs, e \in BOOLEAN}

\* the bytes of the proof file after the engine's upgrade ran on it
Upgraded(bytes, o) ==
  IF o.extend /\ Len(bytes) < MaxBytesLen THEN Append(bytes, Byte) ELSE bytes

\* the results of the engine runs, tabulated over the outcomes drawn
WithFound(S) == {[o EXCEPT !.found = f] : o \in S, f \in BOOLEAN}
StampResults == [o \in WithFound(StampOutcomes) |-> _run_ots_stamp(o)]
VerifyResults == [o \in WithFound(VerifyOutcomes) |-> _run_ots_verify(o)]
UpgradeResults == [o \in WithFound(UpgradeOutcomes) |-> _run_ots_upgrade(o)]

\* the same engine outcome with the other exit code
OtherExit(o) == [o EXCEPT !.returncode = 1 - @]

---------------------------------------------------------------------------
(* Request handlers: each yields the response, the proof store afterwards  *)
(* and the trace of engine runs and proof store accesses it made           *)

TmpDir == "tmp"
ProofsDir == "PROOFS_DIR"

RunAt(cmd, dir, name) == [kind |-> "run", cmd |-> cmd, dir |-> dir, name |-> name]
WriteAt(name) == [kind |-> "write", name |-> name]
ExistsAt(name) == [kind |-> "exists", name |-> name]

HTTPException(r) ==
  [code |-> r.status_code, kind |-> "error", detail |-> r.detail]

Out(rsp, dir, tr) == [resp |-> rsp, store |-> dir, trace |-> tr]

stamp_dest_by_proof(data, proof_bytes) == _sha256_bytes(proof_bytes) \o <<".","o","t","s">>

\* dest = PROOFS_DIR / f"{file_hash}.ots"
stamp_dest(data, proof_bytes) == _sha256_bytes(data) \o <<".","o","t","s">>

stamp_file(st, filename, data, save, download, o) ==
  LET target == IF filename = <<>> THEN <<"t","a","r","g","e","t",".","b","i","n">> ELSE filename
      r == StampResults[o]
      run == RunAt("stamp", TmpDir, target)
      proof_bytes == o.artifact
      file_hash == _sha256_bytes(data)
      dest == stamp_dest(data, proof_bytes)
  IN IF r.raised THEN Out(HTTPException(r), st, <<run>>)
     ELSE IF o.artifact = NoFile
     THEN Out([code |-> 500, kind |-> "json", ok |-> FALSE,
               returncode |-> r.returncode, detail |-> "No se genero el archivo .ots"],
              st, <<run>>)
     ELSE Out(IF download
              THEN [code |-> 200, kind |-> "attachment", body |-> proof_bytes,
                    filename |-> file_hash \o <<".","o","t","s">>, file_hash |-> file_hash,
                    saved_as |-> IF save THEN dest ELSE <<>>]
              ELSE [code |-> 200, kind |-> "json", ok |-> TRUE,
                    file_hash |-> file_hash, ots_size |-> Len(proof_bytes),
                    proof_b64 |-> b64encode(proof_bytes),
                    saved_as |-> IF save THEN dest ELSE None,
                    returncode |-> r.returncode, status |-> "pending"],
              IF save THEN WriteBytes(st, dest, proof_bytes) ELSE st,
              IF save THEN <<run, WriteAt(dest)>> ELSE <<run>>)

stamp_file_raw(st, filename, data, save, o) ==
  LET target == IF filename = <<>> THEN <<"t","a","r","g","e","t",".","b","i","n">> ELSE filename
      r == StampResults[o]
      run == RunAt("stamp", TmpDir, target)
      proof_bytes == o.artifact
      file_hash == _sha256_bytes(data)
      dest == file_hash \o <<".","o","t","s">>
  IN IF r.raised THEN Out(HTTPException(r), st, <<run>>)
     ELSE IF o.artifact = NoFile
     THEN Out([code |-> 500, kind |-> "json", ok |-> FALSE,
               returncode |-> r.returncode, detail |-> "No se genero el archivo .ots"],
              st, <<run>>)
     ELSE Out([code |-> 200, kind |-> "attachment", body |-> proof_bytes,
               filename |-> file_hash \o <<".","o","t","s">>],
              IF save THEN WriteBytes(st, dest, proof_bytes) ELSE st,
              IF save THEN <<run, WriteAt(dest)>> ELSE <<run>>)

\* target is NoFile or the bytes of the uploaded original
verify_ots(st, filename, ots_bytes, target, save, o) ==
  LET ots_name == IF filename = <<>> THEN <<"p","r","o","o","f",".","o","t","s">> ELSE filename
      file_hash == IF target # NoFile /\ target # <<>>
                   THEN _sha256_bytes(target) ELSE None
      result == VerifyResults[o]
      run == RunAt("verify", TmpDir, ots_name)
      saving == save /\ file_hash # None
      dest == file_hash \o <<".","o","t","s">>
  IN IF result.raised THEN Out(HTTPException(result), st, <<run>>)
     ELSE Out([code |-> 200, kind |-> "json",
               ok |-> (result.status = "verified"), status |-> result.status,
               returncode |-> result.returncode, file_hash |-> file_hash,
               saved_as |-> IF saving THEN dest ELSE None],
              IF saving THEN WriteBytes(st, dest, ots_bytes) ELSE st,
              IF saving THEN <<run, WriteAt(dest)>> ELSE <<run>>)

upgrade_ots(st, fname, ots_bytes, save, by_hash, o) ==
  LET filename == IF fname = <<>> THEN <<"p","r","o","o","f",".","o","t","s">> ELSE fname
      r == UpgradeResults[o]
      run == RunAt("upgrade", TmpDir, filename)
      upgraded == Upgraded(ots_bytes, o)
      out_name == IF by_hash THEN _sha256_bytes(upgraded) \o <<".","o","t","s">> ELSE filename
      dir == IF save THEN WriteBytes(st, out_name, upgraded) ELSE st
      tr == IF save THEN <<run, WriteAt(out_name)>> ELSE <<run>>
  IN IF r.raised THEN Out(HTTPException(r), st, <<run>>)
     ELSE IF r.status # "verified"
     THEN Out([code |-> 200, kind |-> "json", ok |-> FALSE, status |-> r.status,
               returncode |-> r.returncode, ots_size |-> Len(upgraded),
               saved_as |-> IF save THEN out_name ELSE None],
              dir, tr)
     ELSE Out([code |-> 200, kind |-> "attachment", body |-> upgraded,
               filename |-> filename, returncode |-> r.returncode,
               saved_as |-> IF save THEN out_name ELSE <<>>],
              dir, tr)

upper(s) ==
  [i \in 1..Len(s) |->
     IF \E k \in 1..26 : LowerCase[k] = s[i]
     THEN UpperCase[CHOOSE k \in 1..26 : LowerCase[k] = s[i]] ELSE s[i]]

\* the file_hash query strings tried: the digests of the buffers, and
\* variations of one digest
Digest1 == _sha256_bytes(<<Byte>>)
HashInputs ==
  {_sha256_bytes(b) : b \in Bytes} \cup
  { upper(Digest1),
    SubSeq(Digest1, 1, 32) \o upper(SubSeq(Digest1, 33, 64)),
    <<" ">> \o Digest1 \o <<"\n">>,
    Digest1 \o <<"\n">>,
    SubSeq(Digest1, 1, 63),
    Digest1 \o <<"0">>,
    <<".",".","/">> \o SubSeq(Digest1, 4, 64),
    <<"/">> \o SubSeq(Digest1, 2, 64),
    <<"g">> \o SubSeq(Digest1, 2, 64),
    SubSeq(Digest1, 1, 32) \o <<" ">> \o SubSeq(Digest1, 33, 64),
    <<>> }

\* file_hash.lower().strip() and HEX64_RE.match, tabulated over the inputs
Normalized == [raw \in HashInputs |-> strip(lower(raw))]
Hex64Matches == [s \in {Normalized[raw] : raw \in HashInputs} |-> HEX64_RE_match(s)]

\* o1 is the outcome of the engine's verify, o2 of its upgrade, both run on
\* the stored file itself
verify_by_hash(st, raw, o1, o2) ==
  LET file_hash == Normalized[raw]
      candidate == file_hash \o <<".","o","t","s">>
      ex == ExistsAt(candidate)
      result == VerifyResults[o1]
      run1 == RunAt("verify", ProofsDir, candidate)
      up == UpgradeResults[o2]
      run2 == RunAt("upgrade", ProofsDir, candidate)
  IN IF ~Hex64Matches[file_hash]
     THEN Out([code |-> 400, kind |-> "error",
               detail |-> "file_hash must be a 64-char hex SHA-256"], st, <<>>)
     ELSE IF candidate \notin DOMAIN st
     THEN Out([code |-> 404, kind |-> "json", ok |-> FALSE,
               detail |-> "No local proof found"], st, <<ex>>)
     ELSE IF result.raised THEN Out(HTTPException(result), st, <<ex, run1>>)
     ELSE IF result.status = "verified"
     THEN Out([code |-> 200, kind |-> "json", ok |-> TRUE, status |-> "verified",
               mode |-> "content_verify", returncode |-> result.returncode,
               used_proof |-> candidate],
              st, <<ex, run1>>)
     ELSE IF up.raised THEN Out(HTTPException(up), st, <<ex, run1, run2>>)
     ELSE Out([code |-> 200, kind |-> "json", ok |-> (up.status = "verified"),
               status |-> up.status, mode |-> "status_only",
               returncode |-> up.returncode, used_proof |-> candidate],
              WriteBytes(st, candidate, Upgraded(st[candidate], o2)),
              <<ex, run1, run2>>)

---------------------------------------------------------------------------
(* The service: one request at a time *)

\* the outcome as the environment lets it happen: no executable, no run
Env(o) == [o EXCEPT !.found = ots_installed]

\* the outcomes to draw from: without the executable there is just the one
Drawn(S) == IF ots_installed THEN S ELSE {CHOOSE o \in S : TRUE}

\* what a response says about the proof: its form, status and ok flag
Verdict(rsp) ==
  [code |-> rsp.code, kind |-> rsp.kind,
   returncode |-> IF "returncode" \in DOMAIN rsp THEN rsp.returncode ELSE -1,
   status |-> IF "status" \in DOMAIN rsp THEN rsp.status ELSE "none",
   ok |-> IF "ok" \in DOMAIN rsp THEN (IF rsp.ok THEN "true" ELSE "false") ELSE "none"]

\* the names a handler wrote in the proof store directory
Writes(tr) == {tr[i].name : i \in {j \in 1..Len(tr) : tr[j].kind = "write"}}
Runs(tr) == {i \in 1..Len(tr) : tr[i].kind = "run"}

TextVars == <<sout, serr, erc, res>>
ConcVars == <<wk, scratch>>

Serve(r, out, other) ==
  /\ Cardinality(DOMAIN out.store) <= MaxEntries
  /\ req' = r
  /\ resp' = out.resp
  /\ twin' = Verdict(other.resp)
  /\ store' = out.store
  /\ trace' = out.trace
  /\ written' = written \cup Writes(out.trace)
  /\ UNCHANGED <<ots_installed, TextVars, ConcVars>>

StampFile ==
  \E filename \in {TargetName}, data \in Bytes, save \in BOOLEAN, download \in BOOLEAN,
     o \in Drawn(StampOutcomes) :
    Serve([op |-> "stamp_file", data |-> data, save |-> save],
          stamp_file(store, filename, data, save, download, Env(o)),
          stamp_file(store, filename, data, save, download, Env(OtherExit(o))))

StampFileRaw ==
  \E filename \in {TargetName}, data \in Bytes, save \in BOOLEAN, o \in Drawn(StampOutcomes) :
    Serve([op |-> "stamp_file_raw", data |-> data, save |-> save],
          stamp_file_raw(store, filename, data, save, Env(o)),
          stamp_file_raw(store, filename, data, save, Env(OtherExit(o))))

VerifyOts ==
  \E filename \in Filenames, ots_bytes \in Bytes, target \in Bytes \cup {NoFile},
     save \in BOOLEAN, o \in Drawn(VerifyOutcomes) :
    Serve([op |-> "verify_ots", target |-> target, save |-> save],
          verify_ots(store, filename, ots_bytes, target, save, Env(o)),
          verify_ots(store, filename, ots_bytes, target, save, Env(OtherExit(o))))

UpgradeOts ==
  \E filename \in Filenames, ots_bytes \in Bytes, save \in BOOLEAN, by_hash \in BOOLEAN,
     o \in Drawn(UpgradeOutcomes) :
    Serve([op |-> "upgrade_ots", save |-> save, by_hash |-> by_hash],
          upgrade_ots(store, filename, ots_bytes, save, by_hash, Env(o)),
          upgrade_ots(store, filename, ots_bytes, save, by_hash, Env(OtherExit(o))))

\* outcomes are drawn for the engine runs the handler makes
NoRun == CHOOSE o \in VerifyOutcomes \cap UpgradeOutcomes : TRUE

VerifyByHash ==
  \E raw \in HashInputs :
    LET r == [op |-> "verify_by_hash", file_hash |-> raw]
        early == verify_by_hash(store, raw, Env(NoRun), Env(NoRun))
    IN IF Runs(early.trace) = {}
       THEN Serve(r, early, early)
       ELSE \E o1 \in Drawn(VerifyOutcomes), o2 \in Drawn(UpgradeOutcomes) :
              Serve(r, verify_by_hash(store, raw, Env(o1), Env(o2)),
                    verify_by_hash(store, raw, Env(OtherExit(o1)), Env(OtherExit(o2))))

\* the engine executable is installed or removed between requests
SetEngine ==
  /\ ots_installed' = ~ots_installed
  /\ UNCHANGED <<store, req, resp, twin, trace, written, TextVars, ConcVars>>

NoRequest == [op |-> "none"]
NoResponse == [code |-> 0, kind |-> "none"]

Init ==
  /\ store = EmptyDir
  /\ ots_installed \in BOOLEAN
  /\ req = NoRequest
  /\ resp = NoResponse
  /\ twin = Verdict(NoResponse)
  /\ trace = <<>>
  /\ written = {}
  /\ sout = <<>> /\ serr = <<>> /\ erc = 0 /\ res = [fn |-> "none"]
  /\ wk = [w \in 1..MaxWorkers |-> [pc |-> "idle", code |-> 0]]
  /\ scratch = {}

Next ==
  \/ StampFile
  \/ StampFileRaw
  \/ VerifyOts
  \/ UpgradeOts
  \/ VerifyByHash
  \/ SetEngine

Spec == Init /\ [][Next]_vars


---------------------------------------------------------------------------
(* The text functions on their own: engine output texts composed of        *)
(* fragments, the classifier and the two run wrappers applied to them      *)

TextFragments ==
  { <<"S","u","c","c","e","s","s","!"," ">>, <<"T","i","m","e","s","t","a","m","p"," ","c","o","m","p","l","e","t","e">>, <<"c","o","m","p","l","e","t","e">>, <<"A","t","t","e","s","t","a","t","i","o","n"," ","v","e","r","i","f","i","e","d">>,
    <<"P","e","n","d","i","n","g"," ","c","o","n","f","i","r","m","a","t","i","o","n">>, <<"p","e","n","d","i","n","g">>, <<"n","o","t"," ","e","n","o","u","g","h"," ","c","o","n","f","i","r","m","a","t","i","o","n","s">>,
    <<"E","r","r","o","r",":"," ">>, <<"F","A","I","L","E","D">>, <<"N","o","t"," ","a"," ","t","i","m","e","s","t","a","m","p">>, <<"B","i","t","c","o","i","n"," ","b","l","o","c","k"," ","7">>,
    <<"G","o","t"," ","1"," ","a","t","t","e","s","t","a","t","i","o","n">>, <<"\n">>, <<"o","k"," ">> }

RECURSIVE Texts(_)
Texts(n) ==
  IF n = 0 THEN {<<>>}
  ELSE LET T == Texts(n - 1) IN T \cup {t \o f : t \in T, f \in TextFragments}

StdoutInputs == Texts(MaxParts)
StderrInputs == {<<>>, <<"E","r","r","o","r",":"," ">>, <<"c","o","m","p","l","e","t","e","\n">>}

ServiceVars == <<store, ots_installed, req, resp, twin, trace, written>>

EngineRan == Ran(erc, [stdout |-> sout, stderr |-> serr], NoFile, FALSE)

StatusFromText ==
  /\ res.fn = "none"
  /\ res' = [fn |-> "_status_from_text", status |-> _status_from_text(sout)]
  /\ UNCHANGED <<sout, serr, erc, ServiceVars, ConcVars>>

RunOtsVerify ==
  /\ res.fn = "none"
  /\ res' = [fn |-> "_run_ots_verify", status |-> _run_ots_verify(EngineRan).status,
             ok |-> _run_ots_verify(EngineRan).ok]
  /\ UNCHANGED <<sout, serr, erc, ServiceVars, ConcVars>>

RunOtsUpgrade ==
  /\ res.fn = "none"
  /\ res' = [fn |-> "_run_ots_upgrade", status |-> _run_ots_upgrade(EngineRan).status,
             ok |-> _run_ots_upgrade(EngineRan).ok]
  /\ UNCHANGED <<sout, serr, erc, ServiceVars, ConcVars>>

InitText ==
  /\ store = EmptyDir
  /\ ots_installed = TRUE
  /\ req = NoRequest
  /\ resp = NoResponse
  /\ twin = Verdict(NoResponse)
  /\ trace = <<>>
  /\ written = {}
  /\ sout \in StdoutInputs /\ serr \in StderrInputs /\ erc \in RCs
  /\ res = [fn |-> "none"]
  /\ wk = [w \in 1..MaxWorkers |-> [pc |-> "idle", code |-> 0]]
  /\ scratch = {}

NextText ==
  \/ StatusFromText
  \/ RunOtsVerify
  \/ RunOtsUpgrade

SpecText == InitText /\ [][NextText]_vars

---------------------------------------------------------------------------
(* The handlers as concurrent workers: a worker starts a handler up to its *)
(* engine run, and resumes it when the engine returns                      *)

Workers == 1..MaxWorkers

\* names tempfile.TemporaryDirectory may pick
DirNames == 1..MaxWorkers

ConcBytes == {<<Byte>>}
ConcHashInputs == {Digest1, upper(Digest1), SubSeq(Digest1, 1, 63)}

Path(root, td, name) == [root |-> root, td |-> td, name |-> name]
Idle(code) == [pc |-> "idle", code |-> code]

Resume(w, out, td) ==
  /\ Cardinality(DOMAIN out.store) <= MaxEntries
  /\ store' = out.store
  /\ scratch' = scratch \ {td}
  /\ wk' = [wk EXCEPT ![w] = Idle(out.resp.code)]
  /\ UNCHANGED <<ots_installed, req, resp, twin, trace, written, TextVars>>

Start(w, rec, td) ==
  /\ wk[w].pc = "idle"
  /\ td \notin scratch
  /\ scratch' = scratch \cup {td}
  /\ wk' = [wk EXCEPT ![w] = rec]
  /\ UNCHANGED <<store, ots_installed, req, resp, twin, trace, written, TextVars>>

CStampFileStart(w) ==
  \E td \in DirNames, data \in ConcBytes, save \in BOOLEAN :
    Start(w, [pc |-> "stamp_file", td |-> td, run |-> Path(TmpDir, td, TargetName),
              data |-> data, save |-> save], td)

CStampFileResume(w) ==
  /\ wk[w].pc = "stamp_file"
  /\ \E o \in Drawn(StampOutcomes) :
       Resume(w, stamp_file(store, TargetName, wk[w].data, wk[w].save, FALSE, Env(o)),
              wk[w].td)

CVerifyOtsStart(w) ==
  \E td \in DirNames, ots_bytes \in ConcBytes, target \in ConcBytes \cup {NoFile},
     save \in BOOLEAN :
    Start(w, [pc |-> "verify_ots", td |-> td, run |-> Path(TmpDir, td, <<"p","r","o","o","f",".","o","t","s">>),
              ots_bytes |-> ots_bytes, target |-> target, save |-> save], td)

CVerifyOtsResume(w) ==
  /\ wk[w].pc = "verify_ots"
  /\ \E o \in Drawn(VerifyOutcomes) :
       Resume(w, verify_ots(store, <<>>, wk[w].ots_bytes, wk[w].target, wk[w].save, Env(o)),
              wk[w].td)

CUpgradeOtsStart(w) ==
  \E td \in DirNames, ots_bytes \in ConcBytes, save \in BOOLEAN, by_hash \in BOOLEAN :
    Start(w, [pc |-> "upgrade_ots", td |-> td, run |-> Path(TmpDir, td, <<"p","r","o","o","f",".","o","t","s">>),
              ots_bytes |-> ots_bytes, save |-> save, by_hash |-> by_hash], td)

CUpgradeOtsResume(w) ==
  /\ wk[w].pc = "upgrade_ots"
  /\ \E o \in Drawn(UpgradeOutcomes) :
       Resume(w, upgrade_ots(store, <<>>, wk[w].ots_bytes, wk[w].save, wk[w].by_hash, Env(o)),
              wk[w].td)

\* verify_by_hash makes no temporary directory: it returns at once, or runs
\* the engine's verify on the stored file
CVerifyByHashStart(w) ==
  /\ wk[w].pc = "idle"
  /\ \E raw \in ConcHashInputs :
       LET early == verify_by_hash(store, raw, Env(NoRun), Env(NoRun)) IN
       wk' = [wk EXCEPT ![w] =
                IF Runs(early.trace) = {} THEN Idle(early.resp.code)
                ELSE [pc |-> "verify_by_hash.verify", raw |-> raw,
                      run |-> Path(ProofsDir, 0, Normalized[raw] \o <<".","o","t","s">>)]]
  /\ UNCHANGED <<store, scratch, ots_installed, req, resp, twin, trace, written, TextVars>>

\* the verify returned: the handler returns, or runs the engine's upgrade on
\* the same stored file
CVerifyByHashVerified(w) ==
  /\ wk[w].pc = "verify_by_hash.verify"
  /\ \E o1 \in Drawn(VerifyOutcomes) :
       LET result == VerifyResults[Env(o1)] IN
       wk' = [wk EXCEPT ![w] =
                IF result.raised THEN Idle(result.status_code)
                ELSE IF result.status = "verified" THEN Idle(200)
                ELSE [@ EXCEPT !.pc = "verify_by_hash.upgrade"]]
  /\ UNCHANGED <<store, scratch, ots_installed, req, resp, twin, trace, written, TextVars>>

NotVerified == CHOOSE o \in VerifyOutcomes : VerifyResults[o].status # "verified"

CVerifyByHashResume(w) ==
  /\ wk[w].pc = "verify_by_hash.upgrade"
  /\ \E o2 \in Drawn(UpgradeOutcomes) :
       Resume(w, verify_by_hash(store, wk[w].raw, NotVerified, Env(o2)), 0)

NextConc ==
  \/ \E w \in Workers : CStampFileStart(w)
  \/ \E w \in Workers : CStampFileResume(w)
  \/ \E w \in Workers : CVerifyOtsStart(w)
  \/ \E w \in Workers : CVerifyOtsResume(w)
  \/ \E w \in Workers : CUpgradeOtsStart(w)
  \/ \E w \in Workers : CUpgradeOtsResume(w)
  \/ \E w \in Workers : CVerifyByHashStart(w)
  \/ \E w \in Workers : CVerifyByHashVerified(w)
  \/ \E w \in Workers : CVerifyByHashResume(w)
  \/ SetEngine

SpecConc == Init /\ [][NextConc]_vars


---------------------------------------------------------------------------
(* Properties *)

Statuses == {"verified", "pending", "failed", "unknown"}

\* the marker classes of the classifier
HasVerifiedMarker(t) ==
  In(<<"t","i","m","e","s","t","a","m","p"," ","c","o","m","p","l","e","t","e">>, t) \/ In(<<"a","t","t","e","s","t","a","t","i","o","n"," ","v","e","r","i","f","i","e","d">>, t)
  \/ (In(<<"s","u","c","c","e","s","s","!">>, t) /\ In(<<"c","o","m","p","l","e","t","e">>, t))
HasPendingMarker(t) == In(<<"p","e","n","d","i","n","g">>, t) \/ In(<<"n","o","t"," ","e","n","o","u","g","h"," ","c","o","n","f","i","r","m","a","t","i","o","n","s">>, t)
HasFailureMarker(t) == In(<<"n","o","t"," ","a"," ","t","i","m","e","s","t","a","m","p">>, t) \/ In(<<"e","r","r","o","r">>, t) \/ In(<<"f","a","i","l","e","d">>, t)

\* the lower-cased text the classifier was given in the text specification
ClassifiedText ==
  IF res.fn = "_status_from_text" THEN lower(sout)
  ELSE lower(strip(sout) \o NL \o strip(serr))

\* C1: the classifier always yields one of the four statuses, the first
\* matching class in the order verified, pending, failed deciding: pending and
\* failure markers together (no verified marker) give pending, no marker at all
\* gives unknown.
C1_FirstMatchWins ==
  res.fn # "none" =>
    LET t == ClassifiedText IN
    /\ res.status \in Statuses
    /\ HasVerifiedMarker(t) => res.status = "verified"
    /\ ~HasVerifiedMarker(t) /\ HasPendingMarker(t) => res.status = "pending"
    /\ ~HasVerifiedMarker(t) /\ ~HasPendingMarker(t) /\ HasFailureMarker(t)
         => res.status = "failed"
    /\ ~HasVerifiedMarker(t) /\ ~HasPendingMarker(t) /\ ~HasFailureMarker(t)
         => res.status = "unknown"

C1_Witness ==
  /\ res.fn = "_status_from_text"
  /\ HasPendingMarker(ClassifiedText) /\ HasFailureMarker(ClassifiedText)
  /\ ~HasVerifiedMarker(ClassifiedText)
  /\ res.status = "pending"

\* C2: a verify_by_hash request leaves every entry of the proof store as it
\* was.
C2_VerifyByHashLeavesStore ==
  [][req'.op = "verify_by_hash" => store' = store]_vars

\* the original files a request supplies
Originals(r) ==
  IF r.op \in {"stamp_file", "stamp_file_raw"} THEN {r.data}
  ELSE IF r.op = "verify_ots" /\ r.target # NoFile THEN {r.target}
  ELSE {}

\* C3: every file a request writes into the proof store directory is named
\* {h}.ots with h the SHA-256 of an original file that request supplied.
C3_StoreKeyedByContentHash ==
  Writes(trace) \subseteq {_sha256_bytes(b) \o <<".","o","t","s">> : b \in Originals(req)}

IsLowerHex64(s) == Len(s) = 64 /\ \A i \in 1..64 : s[i] \in HexDigits

\* C4 as claimed: a file_hash that is not 64 lower-case hex characters as
\* supplied is answered 400 before any proof store access or engine run.
C4_RejectsUnlessLowerHex64 ==
  req.op = "verify_by_hash" /\ ~IsLowerHex64(req.file_hash)
    => resp.code = 400 /\ trace = <<>>

\* C4: a file_hash that, lower-cased and stripped of surrounding whitespace,
\* is not 64 lower-case hex characters is answered 400 before any proof store
\* access or engine run; one that is, in any case and padding, is not.
C4_RejectsUnlessNormalizedHex64 ==
  req.op = "verify_by_hash" =>
    IF IsLowerHex64(strip(lower(req.file_hash)))
    THEN resp.code # 400
    ELSE resp.code = 400 /\ trace = <<>>

C4_Witness ==
  /\ req.op = "verify_by_hash"
  /\ In(<<".",".","/">>, req.file_hash)
  /\ resp.code = 400
  /\ store # EmptyDir

\* C5: every running engine works on a path inside a temporary directory
\* that exists and belongs to its worker alone, no two running engines work on
\* the same path, and no directory outlives its request.
C5_IsolatedScratch ==
  /\ \A w \in Workers : wk[w].pc # "idle" =>
       /\ wk[w].run.root = TmpDir
       /\ wk[w].run.td \in scratch
  /\ \A v, w \in Workers :
       v # w /\ wk[v].pc # "idle" /\ wk[w].pc # "idle" => wk[v].run # wk[w].run
  /\ scratch = {wk[w].run.td : w \in {v \in Workers : wk[v].pc # "idle"}}

EngineUnavailable ==
  [code |-> 500, kind |-> "error", detail |-> "Executable not found"]

\* a request served while the executable is missing
ServedWithoutEngine == ~ots_installed /\ ots_installed' = ots_installed

\* C6 as claimed: with the executable missing, every request fails with the
\* executable-not-found error and leaves the proof store as it was.
C6_EngineUnavailableFailsAll ==
  [][ServedWithoutEngine => resp' = EngineUnavailable /\ store' = store]_vars

\* C6: with the executable missing, every request leaves the proof store as
\* it was and writes nothing; one that gets to run the engine fails at its
\* first run with the executable-not-found error, and the only requests that do
\* not get there are verify_by_hash ones answered 400 or 404.
C6_EngineUnavailableNoWrites ==
  [][ServedWithoutEngine =>
       /\ store' = store
       /\ Writes(trace') = {}
       /\ IF Runs(trace') # {}
          THEN resp' = EngineUnavailable /\ Cardinality(Runs(trace')) = 1
          ELSE req'.op = "verify_by_hash" /\ resp'.code \in {400, 404}]_vars

C6_Witness ==
  /\ ~ots_installed
  /\ req.op = "upgrade_ots" /\ req.save
  /\ resp = EngineUnavailable
  /\ store # EmptyDir

\* C7: the response of verify_ots, upgrade_ots and verify_by_hash has the
\* same form and status whatever the engine's exit codes, the texts being the
\* same, and verify_ots reports ok exactly when the status is verified.
C7_TextOverExitCode ==
  req.op \in {"verify_ots", "upgrade_ots", "verify_by_hash"} =>
    /\ twin.code = resp.code /\ twin.kind = resp.kind
    /\ twin.status = Verdict(resp).status
    /\ twin.ok = Verdict(resp).ok
    /\ req.op = "verify_ots" /\ resp.code = 200 => resp.ok = (resp.status = "verified")

C7_Witness ==
  /\ req.op = "verify_ots" /\ resp.code = 200
  /\ resp.returncode = 1 /\ twin.returncode = 0
  /\ resp.status = "verified" /\ resp.ok

\* the confirmed-attestation markers: a Bitcoin block reference, a
\* "got ... attestation" phrase, a completed or verified attestation phrase
HasConfirmedAttestationMarker(t) ==
  \/ In(<<"b","i","t","c","o","i","n"," ","b","l","o","c","k">>, t)
  \/ In(<<"g","o","t">>, t) /\ In(<<"a","t","t","e","s","t","a","t","i","o","n">>, t)
  \/ In(<<"a","t","t","e","s","t","a","t","i","o","n"," ","v","e","r","i","f","i","e","d">>, t)
  \/ In(<<"t","i","m","e","s","t","a","m","p"," ","c","o","m","p","l","e","t","e">>, t)

\* C8: engine text with a confirmed-attestation marker is classified
\* verified.
C8_ConfirmedAttestationIsVerified ==
  res.fn # "none" /\ HasConfirmedAttestationMarker(ClassifiedText)
    => res.status = "verified"

B64Index(c) == CHOOSE i \in 0..63 : B64Alphabet[i + 1] = c

\* base64.b64decode
b64decode(s) ==
  LET pads == Cardinality({j \in 1..Len(s) : s[j] = "="})
      val(j) == IF s[j] = "=" THEN 0 ELSE B64Index(s[j])
      group(g) == val(4*g + 1) * 262144 + val(4*g + 2) * 4096
                  + val(4*g + 3) * 64 + val(4*g + 4)
  IN [i \in 1..(3 * (Len(s) \div 4) - pads) |->
        (group((i - 1) \div 3) \div (256 ^ (2 - ((i - 1) % 3)))) % 256]

\* the proof bytes a stamp response carries
ReturnedProof(rsp) ==
  IF rsp.kind = "attachment" THEN rsp.body ELSE b64decode(rsp.proof_b64)

\* C9: verify_by_hash of a valid hash answers 404 exactly when no request
\* has written {hash}.ots, and then runs no engine and leaves the proof store
\* as it was; after a stamp that persists, the entry under the hash of the
\* stamped content holds the proof bytes the stamp returned.
C9_NotFoundIffNeverWritten ==
  /\ [](/\ req.op = "verify_by_hash" /\ IsLowerHex64(strip(lower(req.file_hash))) =>
            (resp.code = 404 <=> (strip(lower(req.file_hash)) \o <<".","o","t","s">>) \notin written)
        /\ req.op \in {"stamp_file", "stamp_file_raw"} /\ req.save /\ resp.code = 200 =>
            /\ (_sha256_bytes(req.data) \o <<".","o","t","s">>) \in written \cap DOMAIN store
            /\ store[_sha256_bytes(req.data) \o <<".","o","t","s">>] = ReturnedProof(resp))
  /\ [][req'.op = "verify_by_hash" /\ resp'.code = 404 =>
         Runs(trace') = {} /\ store' = store]_vars

C9_Witness ==
  /\ req.op = "verify_by_hash" /\ IsLowerHex64(req.file_hash)
  /\ resp.code = 404
  /\ store # EmptyDir

\* C10: verify_ots returns the SHA-256 of the original file whenever one was
\* supplied, empty or not, whatever the status; the hash is absent only when
\* none was supplied.
C10_HashWheneverOriginalSupplied ==
  req.op = "verify_ots" /\ resp.code = 200 =>
    resp.file_hash = IF req.target = NoFile THEN None ELSE _sha256_bytes(req.target)

====
